---- MODULE Spec2Model ----
(***************************************************************************)
(* Model of simple-pyright-action (src/src/action.ts, helpers.ts,          *)
(* types.ts): one run of the action reconciles the pull request's comments *)
(* with the pyright report.  The comment store of the hosting platform is  *)
(* the only persistent state; runs follow each other without overlapping.  *)
(*                                                                         *)
(* Strings are sequences of atoms.  A literal chunk that the code only     *)
(* ever concatenates is one atom; text whose substrings matter (paths,     *)
(* repository names, numbers) is spelled character by character.           *)
(***************************************************************************)
EXTENDS Integers, Sequences, FiniteSets, TLC

\* ------------------------------------------------------------------ bounds
MaxRuns == 3
MaxUserComments == 1
MaxFailures == 1
MaxDiags == 3       \* diagnostics in a report given to the renderers
MaxCount == 2       \* the counts of a report's summary
MaxCoord == 1       \* line and character of the enumerated ranges
MaxEvents == 3      \* workflow runs started on the two runners

\* --------------------------------------------------------------- constants
BotLogin == "github-actions[bot]"
UserLogin == "octocat"

\* the three key prefixes, spelled by the stems they share
FileKeyPrefix == <<"file-", "diagnostic-", "key">>
SummaryKeyPrefix == <<"diagnostic-", "summary-", "key">>
BaseKeyPrefix == <<"base-", "summary-", "key">>
KeyPrefixes == {FileKeyPrefix, SummaryKeyPrefix, BaseKeyPrefix}

\* the line break, always an atom of its own
Newline == "\n"

\* the text of pullRequest.number and pullRequest.base.repo.name of the modelled PR
PullNumber == <<"7">>
RepoName == <<"p">>

\* absolute paths pyright reports for the two python files of the work tree
PathA == <<"/", "w", "/", "p", "/", "p", "/", "a", ".", "p", "y">>
PathB == <<"/", "w", "/", "p", "/", "p", "/", "b", ".", "p", "y">>

\* ------------------------------------------------------- string primitives
Min(a, b) == IF a < b THEN a ELSE b
Max(a, b) == IF a > b THEN a ELSE b

\* the elements of a sequence
Range(seq) == {seq[k] : k \in 1..Len(seq)}

\* s.startsWith(sub, from) with a 0-based position
MatchesAt(s, sub, from) ==
    /\ from + Len(sub) <= Len(s)
    /\ \A k \in 1..Len(sub) : s[from + k] = sub[k]

\* String.prototype.indexOf(sub, from): 0-based index of the first
\* occurrence at or after from, -1 when there is none
IndexOf(s, sub, from) ==
    LET start == Max(0, Min(from, Len(s)))
        hits == {k \in start..Len(s) : MatchesAt(s, sub, k)}
    IN IF hits = {} THEN -1
       ELSE CHOOSE k \in hits : \A m \in hits : k <= m

\* String.prototype.includes
Includes(s, sub) == IndexOf(s, sub, 0) # -1

\* String.prototype.slice(start) for start >= 0
Slice(s, start) == SubSeq(s, start + 1, Len(s))

\* the characters double quote and backtick (the latter cannot be written
\* in a string of this language and is named instead)
DoubleQuote == "\""
Backtick == "BACKTICK"

\* message.replace(/"/g, BACKTICK)
ReplaceQuotes(s) == [k \in 1..Len(s) |-> IF s[k] = DoubleQuote THEN Backtick ELSE s[k]]

Digits == <<"0", "1", "2", "3", "4", "5", "6", "7", "8", "9">>

RECURSIVE NatToString(_)
NatToString(n) ==
    IF n < 10 THEN <<Digits[n + 1]>>
    ELSE NatToString(n \div 10) \o <<Digits[(n % 10) + 1]>>

\* an integer n in a template literal
NumberToString(n) == IF n < 0 THEN <<"-">> \o NatToString(0 - n) ELSE NatToString(n)

\* ------------------------------------------------------------- helpers.ts
pluralize(n, singular, plural) ==
    NumberToString(n) \o <<" ", IF n = 1 THEN singular ELSE plural>>

isEmptyPosition(p) == p.line = 0 /\ p.character = 0

\* a range taken for empty by its start alone
isEmptyRangeStart(r) == isEmptyPosition(r.start)

isEmptyRange(r) == isEmptyPosition(r.start) /\ isEmptyPosition(r.end)

getSeverityIcon(severity) ==
    CASE severity = "error" -> <<":x:">>
      [] severity = "warning" -> <<":warning:">>
      [] OTHER -> <<>>

\* an optional field is a sequence of zero or one values
formatDiagnostic(diag, fileName) ==
    fileName \o <<":">>
    \o (IF diag.range # <<>> /\ ~isEmptyRange(diag.range[1])
        THEN NumberToString(diag.range[1].start.line + 1) \o <<":">>
             \o NumberToString(diag.range[1].start.character + 1) \o <<" -">>
        ELSE <<>>)
    \o <<" ">> \o getSeverityIcon(diag.severity) \o <<" ", diag.severity, ": ">>
    \o ReplaceQuotes(diag.message)
    \o (IF diag.rule # <<>> THEN <<" (">> \o diag.rule \o <<")">> ELSE <<>>)

getRelativePath(file, repoName) ==
    LET firstOccurrenceEndIndex == IndexOf(file, repoName, 0) + Len(repoName)
        secondOccurrenceStartIndex == IndexOf(file, repoName, firstOccurrenceEndIndex)
    IN IF secondOccurrenceStartIndex = -1 THEN file
       ELSE Slice(file, secondOccurrenceStartIndex + Len(repoName) + 1)

createCommentKey(prefix, value) == prefix \o <<":">> \o value

\* createHash("sha256").update(value).digest("hex"), as a table of the real
\* digests of the discriminants of the model
Sha256Hex(value) ==
    CASE value = <<"7">> ->
         <<"7", "9", "0", "2", "6", "9", "9", "b", "e", "4", "2", "c", "8", "a", "8", "e",
           "4", "6", "f", "b", "b", "b", "4", "5", "0", "1", "7", "2", "6", "5", "1", "7",
           "e", "8", "6", "b", "2", "2", "c", "5", "6", "a", "1", "8", "9", "f", "7", "6",
           "2", "5", "a", "6", "d", "a", "4", "9", "0", "8", "1", "b", "2", "4", "5", "1">>
      [] value = <<"7", "-", "a", ".", "p", "y">> ->
         <<"b", "d", "0", "c", "b", "0", "6", "8", "e", "9", "d", "f", "9", "2", "6", "9",
           "f", "d", "8", "b", "a", "3", "9", "6", "b", "d", "c", "e", "1", "7", "c", "8",
           "6", "d", "4", "8", "4", "3", "9", "e", "1", "f", "8", "c", "a", "b", "6", "2",
           "a", "0", "3", "d", "1", "1", "0", "d", "8", "b", "8", "d", "b", "e", "c", "0">>
      [] value = <<"7", "-", "/", "x", "/", "c", ".", "p", "y">> ->
         <<"f", "f", "d", "3", "2", "d", "3", "1", "7", "d", "6", "c", "c", "a", "3", "5",
           "e", "6", "d", "e", "6", "0", "4", "5", "7", "5", "6", "1", "c", "5", "8", "1",
           "e", "e", "2", "6", "5", "3", "f", "8", "2", "0", "9", "c", "6", "e", "d", "b",
           "0", "e", "c", "5", "c", "3", "d", "7", "9", "8", "3", "b", "e", "3", "0", "4">>
      [] value = <<"7", "-", "b", ".", "p", "y">> ->
         <<"b", "d", "4", "e", "d", "5", "f", "b", "d", "3", "0", "6", "1", "2", "5", "1",
           "c", "f", "d", "a", "5", "0", "0", "4", "f", "c", "2", "4", "7", "9", "c", "2",
           "f", "d", "e", "9", "3", "7", "5", "e", "0", "7", "3", "0", "c", "e", "0", "9",
           "b", "f", "3", "4", "a", "2", "d", "0", "d", "a", "8", "1", "0", "7", "f", "4">>

\* the digest cut at its start only
SubstringFrom(s, start, end) == SubSeq(s, start + 1, Len(s))

\* String.prototype.substring(start, end) for 0 <= start <= end
Substring(s, start, end) == SubSeq(s, start + 1, Min(end, Len(s)))

generateCommentKey(prefix, value) ==
    LET v == Substring(Sha256Hex(value), 0, 16)
    IN <<"[">> \o prefix \o <<":">> \o v \o <<"]">>

\* the expression without its opening bracket and the first stem of the
\* prefix, as a search for the text stem:([^\]]+)\] would try it
RegexCloseAtStem(input, keyPrefix, from) ==
    LET open == Tail(keyPrefix) \o <<":">>
        first == from + Len(open) + 1
    IN IF ~MatchesAt(input, open, from) THEN 0
       ELSE LET closes == {j \in first..Len(input) : input[j] = "]"}
            IN IF closes = {} THEN 0
               ELSE LET j == CHOOSE c \in closes : \A d \in closes : c <= d
                    IN IF j > first THEN j ELSE 0

\* the regular expression \[keyPrefix:([^\]]+)\] tried at 0-based position
\* from: the index of the closing bracket, or 0 when there is no match here
RegexCloseAt(input, keyPrefix, from) ==
    LET open == <<"[">> \o keyPrefix \o <<":">>
        first == from + Len(open) + 1
    IN IF ~MatchesAt(input, open, from) THEN 0
       ELSE LET closes == {j \in first..Len(input) : input[j] = "]"}
            IN IF closes = {} THEN 0
               ELSE LET j == CHOOSE c \in closes : \A d \in closes : c <= d
                    IN IF j > first THEN j ELSE 0

\* regex.exec(input): [found |-> FALSE] is the code's null, otherwise value
\* is match[1]
findCommentKeyValue(input, keyPrefix) ==
    LET starts == {k \in 0..Len(input) : RegexCloseAt(input, keyPrefix, k) # 0}
    IN IF starts = {} THEN [found |-> FALSE, value |-> <<>>]
       ELSE LET k == CHOOSE a \in starts : \A b \in starts : a <= b
            IN [found |-> TRUE,
                value |-> SubSeq(input, k + Len(keyPrefix) + 3,
                                 RegexCloseAt(input, keyPrefix, k) - 1)]

\* --------------------------------------------------------------- types.ts
\* a JavaScript value read from an object: a number, or undefined when the
\* object has no such field; NaN arises from arithmetic on undefined
JsField(obj, name) ==
    IF name \in DOMAIN obj THEN [t |-> "number", n |-> obj[name]]
    ELSE [t |-> "undefined", n |-> 0]

JsMinus(x, y) ==
    IF x.t = "number" /\ y.t = "number" THEN [t |-> "number", n |-> x.n - y.n]
    ELSE [t |-> "NaN", n |-> 0]

\* the value inside a template literal
JsTemplate(v) ==
    CASE v.t = "number" -> NumberToString(v.n)
      [] v.t = "undefined" -> <<"undefined">>
      [] OTHER -> <<"NaN">>

\* v > 0, v == 0, v <= 0: every comparison with undefined or NaN is false
JsGt0(v) == v.t = "number" /\ v.n > 0
JsEq0(v) == v.t = "number" /\ v.n = 0
JsLe0(v) == v.t = "number" /\ v.n <= 0

\* Report.parse accepts an object that has generalDiagnostics and a summary
\* with the three counts of the schema, and throws otherwise
IsReport(raw) ==
    /\ {"generalDiagnostics", "summary"} \subseteq DOMAIN raw
    /\ {"errorCount", "warningCount", "informationCount"} \subseteq DOMAIN raw.summary

\* Report.parse(v, {mode: "strip"}): the fields of the schema are kept, every
\* other field is dropped
parseReport(raw) ==
    [generalDiagnostics |-> raw.generalDiagnostics,
     summary |-> [errorCount |-> raw.summary.errorCount,
                  warningCount |-> raw.summary.warningCount,
                  informationCount |-> raw.summary.informationCount]]

\* ------------------------------------------------------- pyright's output
Position(l, c) == [line |-> l, character |-> c]

DiagA ==
    [file |-> PathA, severity |-> "error",
     message |-> <<"Expression of type ", DoubleQuote, "int", DoubleQuote, " is wrong">>,
     rule |-> <<"reportAssignmentType">>,
     range |-> <<[start |-> Position(9, 13), end |-> Position(9, 21)]>>]

DiagB ==
    [file |-> PathB, severity |-> "warning",
     message |-> <<"Import cycle detected">>,
     rule |-> <<>>,
     range |-> <<>>]

\* what pyright finds in the changed files from one push to the next:
\* nothing, one file with an issue, two files with an issue each
DiagnosticLists == {<<>>, <<DiagA>>, <<DiagA, DiagB>>}

CountSeverity(diags, severity) ==
    Cardinality({k \in 1..Len(diags) : diags[k].severity = severity})

FilesOf(diags) == {diags[k].file : k \in 1..Len(diags)}

\* the JSON pyright prints for the changed files: the summary agrees with the
\* diagnostics, and carries fields the schema does not name
RawReport(diags, nFiles) ==
    [version |-> "1.1.354",
     generalDiagnostics |-> diags,
     summary |-> [filesAnalyzed |-> nFiles,
                  errorCount |-> CountSeverity(diags, "error"),
                  warningCount |-> CountSeverity(diags, "warning"),
                  informationCount |-> CountSeverity(diags, "information"),
                  timeInSec |-> 0]]

ChangedFileReports == {RawReport(d, 2) : d \in DiagnosticLists}

\* whole-project reports of the base comparison (diagnostics left out: the
\* comparison reads the summary only)
ProjectSummary(files, warnings, errors) ==
    [version |-> "1.1.354",
     generalDiagnostics |-> <<>>,
     summary |-> [filesAnalyzed |-> files, errorCount |-> errors,
                  warningCount |-> warnings, informationCount |-> 0,
                  timeInSec |-> 0]]

\* the head of the pull request moves from run to run, its base does not
HeadProjectReports == {ProjectSummary(2, 2, 0), ProjectSummary(2, 0, 1)}
BaseProjectReports == {ProjectSummary(2, 2, 0)}

\* output that is not a report
MalformedOutput == [error |-> "Cannot find module"]

\* ------------------------------------------------- action.ts: the renderers
\* the loop with a diagnostic that has no range skipped
RECURSIVE DiagnosticLinesWithRange(_, _)
DiagnosticLinesWithRange(fileDiagnostics, relativePath) ==
    IF fileDiagnostics = <<>> THEN <<>>
    ELSE (IF Head(fileDiagnostics).range = <<>> THEN <<>>
          ELSE <<Newline, "> - ">> \o formatDiagnostic(Head(fileDiagnostics), relativePath))
         \o DiagnosticLinesWithRange(Tail(fileDiagnostics), relativePath)

RECURSIVE DiagnosticLines(_, _)
DiagnosticLines(fileDiagnostics, relativePath) ==
    IF fileDiagnostics = <<>> THEN <<>>
    ELSE <<Newline, "> - ">> \o formatDiagnostic(Head(fileDiagnostics), relativePath)
         \o DiagnosticLines(Tail(fileDiagnostics), relativePath)

FileCommentKey(relativePath) ==
    generateCommentKey(FileKeyPrefix, PullNumber \o <<"-">> \o relativePath)

FileCommentBody(relativePath, fileDiagnostics) ==
    <<"> [!CAUTION]", Newline, "> <details>", Newline, "> <summary>">>
    \o pluralize(Len(fileDiagnostics), "Issue", "Issues")
    \o <<"</summary>", Newline, ">">>
    \o DiagnosticLines(fileDiagnostics, relativePath)
    \o <<Newline, "> </details>", Newline, Newline, "###### ">>
    \o FileCommentKey(relativePath)

SummaryKey == generateCommentKey(SummaryKeyPrefix, PullNumber)

SummaryBody(report) ==
    LET errorCount == JsField(report.summary, "errorCount")
        warningCount == JsField(report.summary, "warningCount")
    IN <<"## Pyright Summary ", Newline, "**:memo: Files Analyzed**: ">>
       \o JsTemplate(JsField(report.summary, "filesAnalyzed")) \o <<Newline>>
       \o (IF JsGt0(errorCount)
           THEN <<"**:x: Errors**: ">> \o JsTemplate(errorCount) \o <<Newline>>
           ELSE <<>>)
       \o (IF JsGt0(warningCount)
           THEN <<"**:warning: Warnings**: ">> \o JsTemplate(warningCount)
           ELSE <<>>)
       \o (IF JsEq0(errorCount) /\ JsEq0(warningCount)
           THEN <<":white_check_mark: No errors or warnings found.">>
           ELSE <<>>)
       \o <<Newline, Newline, "###### ">> \o SummaryKey

BaseSummaryKey == generateCommentKey(BaseKeyPrefix, PullNumber)

FileDiff(head, base) ==
    JsMinus(JsField(head.summary, "filesAnalyzed"), JsField(base.summary, "filesAnalyzed"))

WarningDiff(head, base) ==
    JsMinus(JsField(head.summary, "warningCount"), JsField(base.summary, "warningCount"))

ErrorDiff(head, base) ==
    JsMinus(JsField(head.summary, "errorCount"), JsField(base.summary, "errorCount"))

FileDiffIcon(d) == IF JsEq0(d) THEN <<>> ELSE IF JsGt0(d) THEN <<":arrow_up:">> ELSE <<":arrow_down:">>

IssueDiffIcon(d) == IF JsLe0(d) THEN <<":white_check_mark:">> ELSE <<":x:">>

SummaryRow(label, report) ==
    <<"| ", label, " | ">> \o JsTemplate(JsField(report.summary, "filesAnalyzed"))
    \o <<" | ">> \o JsTemplate(JsField(report.summary, "warningCount"))
    \o <<" | ">> \o JsTemplate(JsField(report.summary, "errorCount")) \o <<" |", Newline>>

ComparisonMessage(headReport, baseReport) ==
    LET fileDiff == FileDiff(headReport, baseReport)
        warningDiff == WarningDiff(headReport, baseReport)
        errorDiff == ErrorDiff(headReport, baseReport)
    IN <<"## Pyright Summary", Newline,
         "| | files analyzed | warnings | errors |", Newline,
         "| --- | :--: | :--: | :--: |", Newline>>
       \o SummaryRow("base", baseReport)
       \o SummaryRow("head", headReport)
       \o <<"| ", "diff", " | ">> \o FileDiffIcon(fileDiff) \o <<" ">> \o JsTemplate(fileDiff)
       \o <<" | ">> \o IssueDiffIcon(warningDiff) \o <<" ">> \o JsTemplate(warningDiff)
       \o <<" | ">> \o IssueDiffIcon(errorDiff) \o <<" ">> \o JsTemplate(errorDiff)
       \o <<" |", Newline>>
       \o <<Newline, "###### ">> \o BaseSummaryKey

\* ---------------------------------------- action.ts: the in-memory mappings
\* a JavaScript object keyed by strings, as the sequence of its entries in
\* insertion order; assigning to a present key keeps the key's position
ObjectHas(obj, key) == \E k \in 1..Len(obj) : obj[k].key = key

ObjectGet(obj, key) == obj[CHOOSE k \in 1..Len(obj) : obj[k].key = key].value

ObjectSet(obj, key, value) ==
    IF ObjectHas(obj, key)
    THEN [k \in 1..Len(obj) |-> IF obj[k].key = key THEN [key |-> key, value |-> value] ELSE obj[k]]
    ELSE Append(obj, [key |-> key, value |-> value])

\* the author test left out: every comment is keyed
SkipReviewCommentNever(comment) == FALSE

\* the author test of addFileComments
SkipReviewComment(comment) == comment.login # BotLogin

RECURSIVE KeyExistingReviewComments(_, _)
KeyExistingReviewComments(existingReviewComments, keyed) ==
    IF existingReviewComments = <<>> THEN keyed
    ELSE LET comment == Head(existingReviewComments)
             commentKeyValue == findCommentKeyValue(comment.body, FileKeyPrefix)
             rest == Tail(existingReviewComments)
         IN IF SkipReviewComment(comment) THEN KeyExistingReviewComments(rest, keyed)
            ELSE IF commentKeyValue.found
                 THEN KeyExistingReviewComments(rest,
                          ObjectSet(keyed, createCommentKey(FileKeyPrefix, commentKeyValue.value), comment))
                 ELSE KeyExistingReviewComments(rest, keyed)

\* the grouping with a diagnostic left out when its path is not resolved
RECURSIVE GroupResolvedDiagnostics(_, _)
GroupResolvedDiagnostics(generalDiagnostics, diagnosticsByFile) ==
    IF generalDiagnostics = <<>> THEN diagnosticsByFile
    ELSE LET diagnostic == Head(generalDiagnostics)
             relativePath == getRelativePath(diagnostic.file, RepoName)
             sofar == IF ObjectHas(diagnosticsByFile, relativePath)
                      THEN ObjectGet(diagnosticsByFile, relativePath) ELSE <<>>
         IN GroupResolvedDiagnostics(Tail(generalDiagnostics),
                IF relativePath = diagnostic.file THEN diagnosticsByFile
                ELSE ObjectSet(diagnosticsByFile, relativePath, Append(sofar, diagnostic)))

RECURSIVE GroupDiagnostics(_, _)
GroupDiagnostics(generalDiagnostics, diagnosticsByFile) ==
    IF generalDiagnostics = <<>> THEN diagnosticsByFile
    ELSE LET diagnostic == Head(generalDiagnostics)
             relativePath == getRelativePath(diagnostic.file, RepoName)
             sofar == IF ObjectHas(diagnosticsByFile, relativePath)
                      THEN ObjectGet(diagnosticsByFile, relativePath) ELSE <<>>
         IN GroupDiagnostics(Tail(generalDiagnostics),
                ObjectSet(diagnosticsByFile, relativePath, Append(sofar, diagnostic)))

\* the first entry at or after from that the delete loop does not skip
NextDelete(keyed, processedCommentKeys, from) ==
    LET stale == {k \in from..Len(keyed) :
                     \A p \in 1..Len(processedCommentKeys) : processedCommentKeys[p] # keyed[k].key}
    IN IF stale = {} THEN Len(keyed) + 1
       ELSE CHOOSE k \in stale : \A m \in stale : k <= m

\* the find written the way addSummaryComment writes it: the decoded value
\* compared with the bracketed key
FindComparisonCommentByValue(existingComments) ==
    LET hits == {k \in 1..Len(existingComments) :
                    /\ existingComments[k].login = BotLogin
                    /\ LET key == findCommentKeyValue(existingComments[k].body, BaseKeyPrefix)
                       IN key.found /\ key.value = generateCommentKey(BaseKeyPrefix, PullNumber)}
    IN IF hits = {} THEN 0 ELSE CHOOSE k \in hits : \A m \in hits : k <= m

\* existingComments.find of addBaseComparisonComment: the index of the first
\* comment it accepts, 0 when there is none
FindComparisonComment(existingComments) ==
    LET hits == {k \in 1..Len(existingComments) :
                    /\ existingComments[k].login = BotLogin
                    /\ Includes(existingComments[k].body, BaseSummaryKey)}
    IN IF hits = {} THEN 0 ELSE CHOOSE k \in hits : \A m \in hits : k <= m

\* existingComments.find of addSummaryComment
FindSummaryComment(existingComments) ==
    LET hits == {k \in 1..Len(existingComments) :
                    /\ existingComments[k].login = BotLogin
                    /\ LET key == findCommentKeyValue(existingComments[k].body, SummaryKeyPrefix)
                       IN key.found /\ key.value = SummaryKey}
    IN IF hits = {} THEN 0 ELSE CHOOSE k \in hits : \A m \in hits : k <= m

\* ------------------------------------------------------- the comment store
\* what the hosting platform does with a call that succeeds
StoreCreate(comments, id, login, body, path) ==
    Append(comments, [id |-> id, login |-> login, body |-> body, path |-> path])

StoreUpdate(comments, id, body) ==
    [k \in 1..Len(comments) |->
        IF comments[k].id = id THEN [comments[k] EXCEPT !.body = body] ELSE comments[k]]

StoreDelete(comments, id) == SelectSeq(comments, LAMBDA c : c.id # id)

\* ------------------------------------------------------------------- state
VARIABLES
    reviewComments,     \* the pull request's review comments, oldest first
    issueComments,      \* the pull request's issue comments, oldest first
    nextId,             \* the id the store gives to the next comment
    userIds,            \* ids of the comments written by other users
    options,            \* the workflow's inputs
    runs,               \* runs finished so far
    failures,           \* calls that have failed so far
    pc,                 \* where the current run is
    failed,             \* core.setFailed has been called in this run
    calls,              \* the comment-store write calls of this run, in order
    pythonFiles,
    pyrightReport,
    existingReviewComments,
    keyedExistingReviewComments,
    diagnosticsByFile,
    processedCommentKeys,
    deleteIndex,        \* the delete loop's position in keyedExistingReviewComments
    fileCommentsDone,   \* addFileComments has returned in this run
    headReport,
    baseReport,
    existingComments,
    startReviewComments,\* the review comments when this run started
    lastRun,            \* what the previous run's addFileComments saw and left
    args,               \* the arguments a helper or renderer is applied to
    result,             \* what it returned, once it has been applied
    overlap             \* two runners at work on the pull request at once

storeVars == <<reviewComments, issueComments, nextId, userIds>>
fileVars == <<existingReviewComments, keyedExistingReviewComments, diagnosticsByFile,
              processedCommentKeys, deleteIndex, fileCommentsDone>>
issueVars == <<headReport, baseReport, existingComments>>
pureVars == <<args, result>>
runVars == <<storeVars, options, runs, failures, pc, failed, calls, pythonFiles, pyrightReport,
             fileVars, issueVars, startReviewComments, lastRun>>
vars == <<reviewComments, issueComments, nextId, userIds, options, runs, failures, pc,
          failed, calls, pythonFiles, pyrightReport, existingReviewComments,
          keyedExistingReviewComments, diagnosticsByFile, processedCommentKeys,
          deleteIndex, fileCommentsDone, headReport, baseReport, existingComments,
          startReviewComments, lastRun, args, result, overlap>>

NoLastRun == [completed |-> FALSE, aborted |-> FALSE, report |-> <<>>, reviewComments |-> <<>>]

\* no helper is being exercised on its own
NoArgs == [fn |-> "none"]

\* the runners of two workflow runs of one pull request
Runners == {1, 2}

\* a runner's run of addBaseComparisonComment: where it is and its locals
IdleRunner ==
    [pc |-> "idle", headReport |-> <<>>, baseReport |-> <<>>, existingComments |-> <<>>,
     failed |-> FALSE]

\* no runner has started
NoOverlap == [started |-> 0, run |-> [r \in Runners |-> IdleRunner]]

\* the workflow's inputs: getOptions, and the github-token of getRunInfo
Options ==
    [includeFileComments : BOOLEAN, includeBaseComparison : BOOLEAN,
     failOnIssueIncrease : BOOLEAN, token : {<<>>, <<"ghs_token">>}]

\* file names of the commit comparison
ReadmeMd == <<"R", ".", "m", "d">>
APy == <<"a", ".", "p", "y">>
BPy == <<"b", ".", "p", "y">>
ChangedFileLists == {<<>>, <<ReadmeMd>>, <<APy, BPy>>, <<APy, ReadmeMd, BPy>>}

EndsWith(s, suffix) == Len(s) >= Len(suffix) /\ MatchesAt(s, suffix, Len(s) - Len(suffix))

\* what other users write: they quote the markers of the bot's comments
UserPosts ==
    {[kind |-> "review", body |-> <<"> ">> \o FileCommentKey(APy), path |-> APy],
     [kind |-> "issue", body |-> <<"> ">> \o SummaryKey \o <<Newline, "> ">> \o BaseSummaryKey,
      path |-> <<>>]}

\* no run has started and the pull request has no comments
NoRun ==
    /\ reviewComments = <<>>
    /\ issueComments = <<>>
    /\ nextId = 1
    /\ userIds = {}
    /\ runs = 0
    /\ failures = 0
    /\ pc = "idle"
    /\ failed = FALSE
    /\ calls = <<>>
    /\ pythonFiles = <<>>
    /\ pyrightReport = <<>>
    /\ existingReviewComments = <<>>
    /\ keyedExistingReviewComments = <<>>
    /\ diagnosticsByFile = <<>>
    /\ processedCommentKeys = <<>>
    /\ deleteIndex = 1
    /\ fileCommentsDone = FALSE
    /\ headReport = <<>>
    /\ baseReport = <<>>
    /\ existingComments = <<>>
    /\ startReviewComments = <<>>
    /\ lastRun = NoLastRun

Init ==
    /\ NoRun
    /\ options \in Options
    /\ args = NoArgs
    /\ result = <<>>
    /\ overlap = NoOverlap

\* a call may fail while the failure budget lasts
Outcomes == IF failures < MaxFailures THEN {TRUE, FALSE} ELSE {TRUE}

\* a catch that only logs the error
RunCatchSilent ==
    /\ UNCHANGED failed
    /\ pc' = "done"

\* the catch of run: the error of any step ends the run as failed
RunCatch ==
    /\ failed' = TRUE
    /\ pc' = "done"

Spend(ok) == failures' = IF ok THEN failures ELSE failures + 1

Call(op, id, path, body, ok) == [op |-> op, id |-> id, path |-> path, body |-> body, ok |-> ok]

\* the branch of run after runPyright and addFileComments
\* the reporting step that writes the summary whatever the option says
IssuePhaseSummary == "listCommentsSummary"

IssuePhase == IF options.includeBaseComparison THEN "runPyrightHead" ELSE "listCommentsSummary"

\* ----------------------------------------------------------------- actions
\* run: getRunInfo reads the required token and throws when it is missing
\* the start of a run that goes on without the token
StartRunUnchecked ==
    /\ pc = "idle"
    /\ runs < MaxRuns
    /\ startReviewComments' = reviewComments
    /\ pc' = "getPullRequestData"
    /\ UNCHANGED <<storeVars, options, pureVars, overlap, runs, failures, failed, calls, pythonFiles,
                   pyrightReport, fileVars, issueVars, lastRun>>

StartRun ==
    /\ pc = "idle"
    /\ runs < MaxRuns
    /\ startReviewComments' = reviewComments
    /\ IF options.token = <<>>
       THEN RunCatch
       ELSE pc' = "getPullRequestData" /\ UNCHANGED failed
    /\ UNCHANGED <<storeVars, options, pureVars, overlap, runs, failures, calls, pythonFiles, pyrightReport,
                   fileVars, issueVars, lastRun>>

GetPullRequestData(ok) ==
    /\ pc = "getPullRequestData"
    /\ Spend(ok)
    /\ IF ok THEN pc' = "getChangedPythonFiles" /\ UNCHANGED failed ELSE RunCatch
    /\ UNCHANGED <<storeVars, options, pureVars, overlap, runs, calls, pythonFiles, pyrightReport,
                   fileVars, issueVars, startReviewComments, lastRun>>

\* getChangedPythonFiles in a run that goes on without a Python file
GetChangedPythonFilesNoReturn(ok, files) ==
    /\ pc = "getChangedPythonFiles"
    /\ Spend(ok)
    /\ IF ok
       THEN /\ pythonFiles' = SelectSeq(files, LAMBDA f : EndsWith(f, <<".", "p", "y">>))
            /\ pc' = "runPyright"
            /\ UNCHANGED failed
       ELSE RunCatch /\ UNCHANGED pythonFiles
    /\ UNCHANGED <<storeVars, options, pureVars, overlap, runs, calls, pyrightReport,
                   fileVars, issueVars, startReviewComments, lastRun>>

\* getChangedPythonFiles and the early return of run
GetChangedPythonFiles(ok, files) ==
    /\ pc = "getChangedPythonFiles"
    /\ Spend(ok)
    /\ IF ok
       THEN LET filtered == SelectSeq(files, LAMBDA f : EndsWith(f, <<".", "p", "y">>))
            IN /\ pythonFiles' = filtered
               /\ pc' = IF Len(filtered) = 0 THEN "done" ELSE "runPyright"
               /\ UNCHANGED failed
       ELSE RunCatch /\ UNCHANGED pythonFiles
    /\ UNCHANGED <<storeVars, options, pureVars, overlap, runs, calls, pyrightReport,
                   fileVars, issueVars, startReviewComments, lastRun>>

\* runPyright(pythonFiles): JSON.parse and parseReport throw on other output
RunPyright(output) ==
    /\ pc = "runPyright"
    /\ Spend(IsReport(output))
    /\ IF IsReport(output)
       THEN /\ pyrightReport' = <<parseReport(output)>>
            /\ pc' = IF options.includeFileComments THEN "listReviewComments" ELSE IssuePhase
            /\ UNCHANGED failed
       ELSE RunCatch /\ UNCHANGED pyrightReport
    /\ UNCHANGED <<storeVars, options, pureVars, overlap, runs, calls, pythonFiles,
                   fileVars, issueVars, startReviewComments, lastRun>>

\* addFileComments up to its first write: the fetch, the keying of the
\* existing comments and the grouping of the diagnostics
ListReviewComments(ok) ==
    /\ pc = "listReviewComments"
    /\ Spend(ok)
    /\ IF ok
       THEN LET keyed == KeyExistingReviewComments(reviewComments, <<>>)
                groups == GroupDiagnostics(pyrightReport[1].generalDiagnostics, <<>>)
                first == NextDelete(keyed, <<>>, 1)
            IN /\ existingReviewComments' = <<reviewComments>>
               /\ keyedExistingReviewComments' = keyed
               /\ diagnosticsByFile' = groups
               /\ deleteIndex' = first
               /\ fileCommentsDone' = (groups = <<>> /\ first > Len(keyed))
               /\ pc' = IF groups # <<>> THEN "fileLoop"
                        ELSE IF first <= Len(keyed) THEN "deleteLoop" ELSE IssuePhase
               /\ UNCHANGED <<failed, processedCommentKeys>>
       ELSE RunCatch /\ UNCHANGED fileVars
    /\ UNCHANGED <<storeVars, options, pureVars, overlap, runs, calls, pythonFiles, pyrightReport,
                   issueVars, startReviewComments, lastRun>>

\* one iteration of the loop over the diagnostic groups: update the existing
\* comment of the group's key or create a new one
FileCommentStep(ok) ==
    /\ pc = "fileLoop"
    /\ Spend(ok)
    /\ LET group == diagnosticsByFile[Len(processedCommentKeys) + 1]
           relativePath == group.key
           body == FileCommentBody(relativePath, group.value)
           commentKey == FileCommentKey(relativePath)
           processed == Append(processedCommentKeys, commentKey)
           first == NextDelete(keyedExistingReviewComments, processed, 1)
       IN /\ processedCommentKeys' = processed
          /\ IF ObjectHas(keyedExistingReviewComments, commentKey)
             THEN LET existingComment == ObjectGet(keyedExistingReviewComments, commentKey)
                  IN /\ calls' = Append(calls, Call("updateReviewComment", existingComment.id,
                                                    relativePath, body, ok))
                     /\ reviewComments' = IF ok THEN StoreUpdate(reviewComments, existingComment.id, body)
                                          ELSE reviewComments
                     /\ UNCHANGED nextId
             ELSE /\ calls' = Append(calls, Call("createReviewComment", 0, relativePath, body, ok))
                  /\ reviewComments' = IF ok THEN StoreCreate(reviewComments, nextId, BotLogin, body, relativePath)
                                       ELSE reviewComments
                  /\ nextId' = IF ok THEN nextId + 1 ELSE nextId
          /\ IF ~ok THEN RunCatch /\ UNCHANGED <<deleteIndex, fileCommentsDone>>
             ELSE /\ UNCHANGED failed
                  /\ IF Len(processed) < Len(diagnosticsByFile)
                     THEN pc' = "fileLoop" /\ UNCHANGED <<deleteIndex, fileCommentsDone>>
                     ELSE /\ deleteIndex' = first
                          /\ fileCommentsDone' = (first > Len(keyedExistingReviewComments))
                          /\ pc' = IF first <= Len(keyedExistingReviewComments)
                                   THEN "deleteLoop" ELSE IssuePhase
    /\ UNCHANGED <<issueComments, userIds, options, pureVars, overlap, runs, pythonFiles, pyrightReport,
                   existingReviewComments, keyedExistingReviewComments, diagnosticsByFile,
                   issueVars, startReviewComments, lastRun>>

\* an iteration of the delete loop that fetches the review comments again
DeleteStepRefetching(ok) ==
    /\ pc = "deleteLoop"
    /\ Spend(ok)
    /\ LET comment == keyedExistingReviewComments[deleteIndex].value
           next == NextDelete(keyedExistingReviewComments, processedCommentKeys, deleteIndex + 1)
       IN /\ existingReviewComments' = <<reviewComments>>
          /\ calls' = Append(calls, Call("deleteReviewComment", comment.id, comment.path, <<>>, ok))
          /\ reviewComments' = IF ok THEN StoreDelete(reviewComments, comment.id) ELSE reviewComments
          /\ IF ~ok THEN RunCatch /\ UNCHANGED <<deleteIndex, fileCommentsDone>>
             ELSE /\ UNCHANGED failed
                  /\ deleteIndex' = next
                  /\ fileCommentsDone' = (next > Len(keyedExistingReviewComments))
                  /\ pc' = IF next <= Len(keyedExistingReviewComments) THEN "deleteLoop" ELSE IssuePhase
    /\ UNCHANGED <<issueComments, nextId, userIds, options, pureVars, overlap, runs, pythonFiles, pyrightReport,
                   keyedExistingReviewComments, diagnosticsByFile,
                   processedCommentKeys, issueVars, startReviewComments, lastRun>>

\* one iteration of the delete loop that reaches its call
DeleteStep(ok) ==
    /\ pc = "deleteLoop"
    /\ Spend(ok)
    /\ LET comment == keyedExistingReviewComments[deleteIndex].value
           next == NextDelete(keyedExistingReviewComments, processedCommentKeys, deleteIndex + 1)
       IN /\ calls' = Append(calls, Call("deleteReviewComment", comment.id, comment.path, <<>>, ok))
          /\ reviewComments' = IF ok THEN StoreDelete(reviewComments, comment.id) ELSE reviewComments
          /\ IF ~ok THEN RunCatch /\ UNCHANGED <<deleteIndex, fileCommentsDone>>
             ELSE /\ UNCHANGED failed
                  /\ deleteIndex' = next
                  /\ fileCommentsDone' = (next > Len(keyedExistingReviewComments))
                  /\ pc' = IF next <= Len(keyedExistingReviewComments) THEN "deleteLoop" ELSE IssuePhase
    /\ UNCHANGED <<issueComments, nextId, userIds, options, pureVars, overlap, runs, pythonFiles, pyrightReport,
                   existingReviewComments, keyedExistingReviewComments, diagnosticsByFile,
                   processedCommentKeys, issueVars, startReviewComments, lastRun>>

\* addBaseComparisonComment: the head report of the whole project
RunPyrightHead(output) ==
    /\ pc = "runPyrightHead"
    /\ Spend(IsReport(output))
    /\ IF IsReport(output)
       THEN headReport' = <<parseReport(output)>> /\ pc' = "checkoutBaseBranch" /\ UNCHANGED failed
       ELSE RunCatch /\ UNCHANGED headReport
    /\ UNCHANGED <<storeVars, options, pureVars, overlap, runs, calls, pythonFiles, pyrightReport, fileVars,
                   baseReport, existingComments, startReviewComments, lastRun>>

CheckoutBaseBranch(ok) ==
    /\ pc = "checkoutBaseBranch"
    /\ Spend(ok)
    /\ IF ok THEN pc' = "runPyrightBase" /\ UNCHANGED failed ELSE RunCatch
    /\ UNCHANGED <<storeVars, options, pureVars, overlap, runs, calls, pythonFiles, pyrightReport, fileVars,
                   issueVars, startReviewComments, lastRun>>

RunPyrightBase(output) ==
    /\ pc = "runPyrightBase"
    /\ Spend(IsReport(output))
    /\ IF IsReport(output)
       THEN baseReport' = <<parseReport(output)>> /\ pc' = "listCommentsBase" /\ UNCHANGED failed
       ELSE RunCatch /\ UNCHANGED baseReport
    /\ UNCHANGED <<storeVars, options, pureVars, overlap, runs, calls, pythonFiles, pyrightReport, fileVars,
                   headReport, existingComments, startReviewComments, lastRun>>

ListCommentsBase(ok) ==
    /\ pc = "listCommentsBase"
    /\ Spend(ok)
    /\ IF ok
       THEN existingComments' = <<issueComments>> /\ pc' = "writeBaseComparison" /\ UNCHANGED failed
       ELSE RunCatch /\ UNCHANGED existingComments
    /\ UNCHANGED <<storeVars, options, pureVars, overlap, runs, calls, pythonFiles, pyrightReport, fileVars,
                   headReport, baseReport, startReviewComments, lastRun>>

\* addBaseComparisonComment from the find to its end: update and return, or
\* create and then apply fail-on-issue-increase
WriteBaseComparison(ok) ==
    /\ pc = "writeBaseComparison"
    /\ Spend(ok)
    /\ LET comparisonMessage == ComparisonMessage(headReport[1], baseReport[1])
           found == FindComparisonComment(existingComments[1])
       IN IF found # 0
          THEN /\ calls' = Append(calls, Call("updateComment", existingComments[1][found].id,
                                              <<>>, comparisonMessage, ok))
               /\ issueComments' = IF ok THEN StoreUpdate(issueComments, existingComments[1][found].id,
                                                         comparisonMessage)
                                   ELSE issueComments
               /\ UNCHANGED nextId
               /\ IF ok THEN pc' = "done" /\ UNCHANGED failed ELSE RunCatch
          ELSE /\ calls' = Append(calls, Call("createComment", 0, <<>>, comparisonMessage, ok))
               /\ issueComments' = IF ok THEN StoreCreate(issueComments, nextId, BotLogin,
                                                         comparisonMessage, <<>>)
                                   ELSE issueComments
               /\ nextId' = IF ok THEN nextId + 1 ELSE nextId
               /\ IF ok
                  THEN /\ pc' = "done"
                       /\ failed' = (\/ failed
                                     \/ options.failOnIssueIncrease
                                        /\ (\/ JsGt0(ErrorDiff(headReport[1], baseReport[1]))
                                            \/ JsGt0(WarningDiff(headReport[1], baseReport[1]))))
                  ELSE RunCatch
    /\ UNCHANGED <<reviewComments, userIds, options, pureVars, overlap, runs, pythonFiles, pyrightReport, fileVars,
                   issueVars, startReviewComments, lastRun>>

ListCommentsSummary(ok) ==
    /\ pc = "listCommentsSummary"
    /\ Spend(ok)
    /\ IF ok
       THEN existingComments' = <<issueComments>> /\ pc' = "writeSummary" /\ UNCHANGED failed
       ELSE RunCatch /\ UNCHANGED existingComments
    /\ UNCHANGED <<storeVars, options, pureVars, overlap, runs, calls, pythonFiles, pyrightReport, fileVars,
                   headReport, baseReport, startReviewComments, lastRun>>

\* addSummaryComment from the find to its end
WriteSummary(ok) ==
    /\ pc = "writeSummary"
    /\ Spend(ok)
    /\ LET summary == SummaryBody(pyrightReport[1])
           found == FindSummaryComment(existingComments[1])
           report == pyrightReport[1]
       IN IF found # 0
          THEN /\ calls' = Append(calls, Call("updateComment", existingComments[1][found].id,
                                              <<>>, summary, ok))
               /\ issueComments' = IF ok THEN StoreUpdate(issueComments, existingComments[1][found].id,
                                                         summary)
                                   ELSE issueComments
               /\ UNCHANGED nextId
               /\ IF ok THEN pc' = "done" /\ UNCHANGED failed ELSE RunCatch
          ELSE /\ calls' = Append(calls, Call("createComment", 0, <<>>, summary, ok))
               /\ issueComments' = IF ok THEN StoreCreate(issueComments, nextId, BotLogin, summary, <<>>)
                                   ELSE issueComments
               /\ nextId' = IF ok THEN nextId + 1 ELSE nextId
               /\ IF ok
                  THEN /\ pc' = "done"
                       /\ failed' = (\/ failed
                                     \/ options.failOnIssueIncrease
                                        /\ (\/ JsGt0(JsField(report.summary, "errorCount"))
                                            \/ JsGt0(JsField(report.summary, "warningCount"))))
                  ELSE RunCatch
    /\ UNCHANGED <<reviewComments, userIds, options, pureVars, overlap, runs, pythonFiles, pyrightReport, fileVars,
                   issueVars, startReviewComments, lastRun>>

\* the run has returned; the next pull-request event starts a new one
EndRun ==
    /\ pc = "done"
    /\ pc' = "idle"
    /\ runs' = runs + 1
    /\ lastRun' = [completed |-> fileCommentsDone,
                   aborted |-> (existingReviewComments # <<>> /\ ~fileCommentsDone),
                   report |-> pyrightReport,
                   reviewComments |-> reviewComments]
    /\ failed' = FALSE
    /\ calls' = <<>>
    /\ pythonFiles' = <<>>
    /\ pyrightReport' = <<>>
    /\ existingReviewComments' = <<>>
    /\ keyedExistingReviewComments' = <<>>
    /\ diagnosticsByFile' = <<>>
    /\ processedCommentKeys' = <<>>
    /\ deleteIndex' = 1
    /\ fileCommentsDone' = FALSE
    /\ headReport' = <<>>
    /\ baseReport' = <<>>
    /\ existingComments' = <<>>
    /\ startReviewComments' = <<>>
    /\ UNCHANGED <<storeVars, options, pureVars, overlap, failures>>

\* between two runs another user comments on the pull request
UserComment(post) ==
    /\ pc = "idle"
    /\ Cardinality(userIds) < MaxUserComments
    /\ IF post.kind = "review"
       THEN /\ reviewComments' = StoreCreate(reviewComments, nextId, UserLogin, post.body, post.path)
            /\ UNCHANGED issueComments
       ELSE /\ issueComments' = StoreCreate(issueComments, nextId, UserLogin, post.body, post.path)
            /\ UNCHANGED reviewComments
    /\ nextId' = nextId + 1
    /\ userIds' = userIds \cup {nextId}
    /\ UNCHANGED <<options, pureVars, overlap, runs, failures, pc, failed, calls, pythonFiles, pyrightReport,
                   fileVars, issueVars, startReviewComments, lastRun>>

Next ==
    \/ StartRun
    \/ \E ok \in Outcomes : GetPullRequestData(ok)
    \/ \E ok \in Outcomes, files \in ChangedFileLists : GetChangedPythonFiles(ok, files)
    \/ \E output \in ChangedFileReports \cup (IF failures < MaxFailures THEN {MalformedOutput} ELSE {}) :
          RunPyright(output)
    \/ \E ok \in Outcomes : ListReviewComments(ok)
    \/ \E ok \in Outcomes : FileCommentStep(ok)
    \/ \E ok \in Outcomes : DeleteStep(ok)
    \/ \E output \in HeadProjectReports \cup (IF failures < MaxFailures THEN {MalformedOutput} ELSE {}) :
          RunPyrightHead(output)
    \/ \E ok \in Outcomes : CheckoutBaseBranch(ok)
    \/ \E output \in BaseProjectReports \cup (IF failures < MaxFailures THEN {MalformedOutput} ELSE {}) :
          RunPyrightBase(output)
    \/ \E ok \in Outcomes : ListCommentsBase(ok)
    \/ \E ok \in Outcomes : WriteBaseComparison(ok)
    \/ \E ok \in Outcomes : ListCommentsSummary(ok)
    \/ \E ok \in Outcomes : WriteSummary(ok)
    \/ EndRun
    \/ \E post \in UserPosts : UserComment(post)

Spec == Init /\ [][Next]_vars

\* ------------------------------------- the helpers and renderers on their own
\* the message of the example output in types.ts: two lines
DiagNewline ==
    [file |-> PathA, severity |-> "error",
     message |-> <<"Expression of type ", DoubleQuote, "int", DoubleQuote,
                   " cannot be assigned to declared type ", DoubleQuote, "str", DoubleQuote,
                   Newline, "  ", DoubleQuote, "int", DoubleQuote, " is incompatible with ",
                   DoubleQuote, "str", DoubleQuote>>,
     rule |-> <<"reportAssignmentType">>,
     range |-> <<[start |-> Position(9, 13), end |-> Position(9, 21)]>>]

\* a message that quotes text of the checked file which looks like a marker
DiagMarker ==
    [file |-> PathA, severity |-> "warning",
     message |-> <<"Unknown name in ", DoubleQuote, "[">> \o FileKeyPrefix
                 \o <<":", "x", "]", DoubleQuote>>,
     rule |-> <<>>,
     range |-> <<>>]

\* a diagnostic for a file outside the checkout: its path does not hold the
\* repository name twice
PathOutside == <<"/", "x", "/", "c", ".", "p", "y">>

DiagOutside ==
    [file |-> PathOutside, severity |-> "warning",
     message |-> <<"Stub file not found">>,
     rule |-> <<"reportMissingModuleSource">>,
     range |-> <<[start |-> Position(0, 0), end |-> Position(0, 0)]>>]

Diagnostics == {DiagA, DiagB, DiagNewline, DiagMarker, DiagOutside}

RECURSIVE SeqsUpTo(_, _)
SeqsUpTo(S, n) ==
    IF n = 0 THEN {<<>>}
    ELSE LET shorter == SeqsUpTo(S, n - 1)
         IN shorter \cup {Append(q, x) : q \in shorter, x \in S}

\* DiagB with every range over the small coordinates
RangeDiagnostics ==
    {[DiagB EXCEPT !.range = <<[start |-> Position(a, b), end |-> Position(c, d)]>>] :
        a \in 0..MaxCoord, b \in 0..MaxCoord, c \in 0..MaxCoord, d \in 0..MaxCoord}

\* the body of each comment addFileComments writes for a report, in the
\* order of its loop over the groups
FileCommentBodies(generalDiagnostics) ==
    LET groups == GroupDiagnostics(generalDiagnostics, <<>>)
    IN [k \in 1..Len(groups) |->
           [relativePath |-> groups[k].key,
            fileDiagnostics |-> groups[k].value,
            body |-> FileCommentBody(groups[k].key, groups[k].value)]]

ProjectSummaries ==
    {ProjectSummary(f, w, e) : f \in 1..MaxCount, w \in 0..MaxCount, e \in 0..MaxCount}

\* the value of keyValue at the three call sites of generateCommentKey
Discriminants == {PullNumber, PullNumber \o <<"-">> \o APy, PullNumber \o <<"-">> \o BPy}

Markers == {generateCommentKey(p, v) : p \in KeyPrefixes, v \in Discriminants}

\* comment text without a marker: plain words, a key of a shorter prefix, an
\* empty key, a key that is never closed, a key without its opening bracket
StrayTexts ==
    {<<>>,
     <<"LGTM">>,
     <<"[", "summary-", "key", ":", "x", "]">>,
     <<"[">> \o FileKeyPrefix \o <<":", "]">>,
     <<"[">> \o SummaryKeyPrefix \o <<":", "x">>,
     BaseKeyPrefix \o <<":", "x", "]">>}

RenderedFileBodies ==
    UNION {{b.body : b \in Range(FileCommentBodies(ds))} : ds \in SeqsUpTo(Diagnostics, MaxDiags)}

\* the runner's work directory, the repository name and the path inside the
\* repository, from which the path pyright reports is put together; a
\* repository may be called like a directory above it and may hold a
\* directory called like itself
WorkDirs ==
    {<<"/", "h", "o", "m", "e", "/", "r", "u", "n", "n", "e", "r", "/", "w", "o", "r", "k">>,
     <<"/", "p", "r", "o", "j", "/", "w", "o", "r", "k">>}

RepoNames == {<<"p", "r", "o", "j">>, <<"w", "o", "r", "k">>}

Rests ==
    {<<"m", "a", "i", "n", ".", "p", "y">>,
     <<"p", "r", "o", "j", "/", "m", "a", "i", "n", ".", "p", "y">>}

\* <workdir>/<repoName>/<repoName>/<rest>
CheckedOutPath(workdir, repoName, rest) ==
    workdir \o <<"/">> \o repoName \o <<"/">> \o repoName \o <<"/">> \o rest

PureArgs ==
    [fn : {"getRelativePath"}, workdir : WorkDirs, repoName : RepoNames, rest : Rests]
    \cup [fn : {"generateCommentKey"}, prefix : KeyPrefixes, value : Discriminants]
    \cup [fn : {"findCommentKeyValue"}, input : Markers \cup StrayTexts \cup RenderedFileBodies,
          keyPrefix : KeyPrefixes]
    \cup [fn : {"formatDiagnostic"}, diag : Diagnostics \cup RangeDiagnostics, fileName : {APy}]
    \cup [fn : {"addFileComments"}, generalDiagnostics : SeqsUpTo(Diagnostics, MaxDiags)]
    \cup [fn : {"parseReport"}, output : ProjectSummaries \cup ChangedFileReports]
    \cup [fn : {"addSummaryComment"}, output : ProjectSummaries]
    \cup [fn : {"addBaseComparisonComment"}, head : ProjectSummaries, base : ProjectSummaries]

\* the defaults of action.yml
DefaultOptions ==
    [includeFileComments |-> TRUE, includeBaseComparison |-> FALSE,
     failOnIssueIncrease |-> FALSE, token |-> <<"ghs_token">>]

PureInit ==
    /\ NoRun
    /\ options = DefaultOptions
    /\ args \in PureArgs
    /\ result = <<>>
    /\ overlap = NoOverlap

\* generateCommentKey is called for the same discriminant in one run and in
\* the next: result collects the keys
GenerateCommentKeyCall ==
    /\ args.fn = "generateCommentKey"
    /\ Len(result) < 2
    /\ result' = Append(result, generateCommentKey(args.prefix, args.value))
    /\ UNCHANGED <<runVars, overlap, args>>

FindCommentKeyValueCall ==
    /\ args.fn = "findCommentKeyValue"
    /\ result = <<>>
    /\ result' = <<findCommentKeyValue(args.input, args.keyPrefix)>>
    /\ UNCHANGED <<runVars, overlap, args>>

GetRelativePathCall ==
    /\ args.fn = "getRelativePath"
    /\ result = <<>>
    /\ result' = <<getRelativePath(CheckedOutPath(args.workdir, args.repoName, args.rest),
                                   args.repoName)>>
    /\ UNCHANGED <<runVars, overlap, args>>

FormatDiagnosticCall ==
    /\ args.fn = "formatDiagnostic"
    /\ result = <<>>
    /\ result' = <<formatDiagnostic(args.diag, args.fileName)>>
    /\ UNCHANGED <<runVars, overlap, args>>

\* the bodies addFileComments renders for a parsed report
RenderFileComments ==
    /\ args.fn = "addFileComments"
    /\ result = <<>>
    /\ result' = <<FileCommentBodies(args.generalDiagnostics)>>
    /\ UNCHANGED <<runVars, overlap, args>>

\* the body addSummaryComment renders for the report runPyright returns
\* runPyright hands the JSON of pyright's output to parseReport
ParseReportCall ==
    /\ args.fn = "parseReport"
    /\ result = <<>>
    /\ result' = <<parseReport(args.output)>>
    /\ UNCHANGED <<runVars, overlap, args>>

RenderSummary ==
    /\ args.fn = "addSummaryComment"
    /\ result = <<>>
    /\ result' = <<SummaryBody(parseReport(args.output))>>
    /\ UNCHANGED <<runVars, overlap, args>>

\* the body addBaseComparisonComment renders for the two reports runPyright
\* returns
RenderComparison ==
    /\ args.fn = "addBaseComparisonComment"
    /\ result = <<>>
    /\ result' = <<ComparisonMessage(parseReport(args.head), parseReport(args.base))>>
    /\ UNCHANGED <<runVars, overlap, args>>

PureNext ==
    \/ GenerateCommentKeyCall
    \/ FindCommentKeyValueCall
    \/ GetRelativePathCall
    \/ FormatDiagnosticCall
    \/ ParseReportCall
    \/ RenderFileComments
    \/ RenderSummary
    \/ RenderComparison

PureSpec == PureInit /\ [][PureNext]_vars

\* --------------------------------- runs with the workflow's inputs changing
\* Between two runs the workflow file is edited: the next run reads other
\* values of include-file-comments and include-base-comparison, and finds on
\* the pull request what the runs before it left there.
ReportOptions ==
    [includeFileComments : BOOLEAN, includeBaseComparison : BOOLEAN,
     failOnIssueIncrease : {FALSE}, token : {<<"ghs_token">>}]

ReportInit ==
    /\ NoRun
    /\ options \in ReportOptions
    /\ args = NoArgs
    /\ result = <<>>
    /\ overlap = NoOverlap

Reconfigure(inputs) ==
    /\ pc = "idle"
    /\ runs < MaxRuns
    /\ inputs # options
    /\ options' = inputs
    /\ UNCHANGED <<storeVars, pureVars, overlap, runs, failures, pc, failed, calls, pythonFiles,
                   pyrightReport, fileVars, issueVars, startReviewComments, lastRun>>

ReportNext ==
    \/ Next
    \/ \E inputs \in ReportOptions : Reconfigure(inputs)

ReportSpec == ReportInit /\ [][ReportNext]_vars

\* ------------------------------------------- two runs of one pull request
\* Two pushes (or a push and a re-run) start two workflow runs that work on
\* the same pull request from two runners.  Each goes through
\* addBaseComparisonComment on its own checkout; they share the issue comments
\* of the pull request.  calls is the order in which the store applied their
\* writes.
OverlapOptions ==
    [includeFileComments : {FALSE}, includeBaseComparison : {TRUE},
     failOnIssueIncrease : BOOLEAN, token : {<<"ghs_token">>}]

OverlapInit ==
    /\ NoRun
    /\ options \in OverlapOptions
    /\ args = NoArgs
    /\ result = <<>>
    /\ overlap = NoOverlap

overlapRest == <<reviewComments, userIds, options, runs, failures, pc, failed, pythonFiles,
                 pyrightReport, fileVars, issueVars, startReviewComments, lastRun, pureVars>>

\* a workflow run starts on runner r and reaches addBaseComparisonComment
OverlapStart(r) ==
    /\ overlap.run[r].pc \in {"idle", "done"}
    /\ overlap.started < MaxEvents
    /\ overlap' = [started |-> overlap.started + 1,
                   run |-> [overlap.run EXCEPT ![r] = [IdleRunner EXCEPT !.pc = "runPyright"]]]
    /\ UNCHANGED <<issueComments, nextId, calls, overlapRest>>

\* the two reports: runPyright, checkoutBaseBranch, runPyright
OverlapReports(r, head, base) ==
    /\ overlap.run[r].pc = "runPyright"
    /\ overlap' = [overlap EXCEPT !.run[r].headReport = <<parseReport(head)>>,
                                  !.run[r].baseReport = <<parseReport(base)>>,
                                  !.run[r].pc = "listComments"]
    /\ UNCHANGED <<issueComments, nextId, calls, overlapRest>>

\* the fetch of the issue comments
OverlapListComments(r) ==
    /\ overlap.run[r].pc = "listComments"
    /\ overlap' = [overlap EXCEPT !.run[r].existingComments = <<issueComments>>,
                                  !.run[r].pc = "writeComparison"]
    /\ UNCHANGED <<issueComments, nextId, calls, overlapRest>>

\* from the find to the end: update and return, or create and then apply
\* fail-on-issue-increase
OverlapWriteComparison(r) ==
    /\ overlap.run[r].pc = "writeComparison"
    /\ LET self == overlap.run[r]
           comparisonMessage == ComparisonMessage(self.headReport[1], self.baseReport[1])
           found == FindComparisonComment(self.existingComments[1])
       IN IF found # 0
          THEN /\ calls' = Append(calls, Call("updateComment", self.existingComments[1][found].id,
                                              <<>>, comparisonMessage, TRUE))
               /\ issueComments' = StoreUpdate(issueComments, self.existingComments[1][found].id,
                                               comparisonMessage)
               /\ UNCHANGED nextId
               /\ overlap' = [overlap EXCEPT !.run[r].pc = "done"]
          ELSE /\ calls' = Append(calls, Call("createComment", 0, <<>>, comparisonMessage, TRUE))
               /\ issueComments' = StoreCreate(issueComments, nextId, BotLogin,
                                               comparisonMessage, <<>>)
               /\ nextId' = nextId + 1
               /\ overlap' = [overlap EXCEPT
                     !.run[r].pc = "done",
                     !.run[r].failed =
                         /\ options.failOnIssueIncrease
                         /\ \/ JsGt0(ErrorDiff(self.headReport[1], self.baseReport[1]))
                            \/ JsGt0(WarningDiff(self.headReport[1], self.baseReport[1]))]
    /\ UNCHANGED overlapRest

OverlapNext ==
    \/ \E r \in Runners : OverlapStart(r)
    \/ \E r \in Runners, head \in HeadProjectReports, base \in BaseProjectReports :
          OverlapReports(r, head, base)
    \/ \E r \in Runners : OverlapListComments(r)
    \/ \E r \in Runners : OverlapWriteComparison(r)

OverlapSpec == OverlapInit /\ [][OverlapNext]_vars

\* ------------------------------------------------------------- properties
FilePaths == {APy, BPy}

SubjectKeys == {FileCommentKey(APy), FileCommentKey(BPy), SummaryKey, BaseSummaryKey}

BotAuthored(comments) == {c \in Range(comments) : c.login = BotLogin}

\* the bot's comments, of either kind, whose body carries the marker key
Carrying(key) ==
    {c \in BotAuthored(reviewComments) \cup BotAuthored(issueComments) : Includes(c.body, key)}

\* the diagnostics of the current report that belong to the file path
DiagnosticsOf(path) ==
    IF pyrightReport = <<>> THEN <<>>
    ELSE SelectSeq(pyrightReport[1].generalDiagnostics,
                   LAMBDA d : getRelativePath(d.file, RepoName) = path)

CallsOf(ops) == {k \in 1..Len(calls) : calls[k].op \in ops}

\* C1: when a run has ended, every subject key (a file's diagnostics, the
\* summary, the base comparison) is carried by at most one comment of the bot.
C1_NoDuplicateSubject ==
    pc = "done" => \A key \in SubjectKeys : Cardinality(Carrying(key)) <= 1

\* C2: once addFileComments has returned, the keys carried by the bot's
\* review comments are exactly the keys of the files with a diagnostic in the
\* current report, and each such comment has the body rendered in this run.
C2_FinalStateMatchesDesired ==
    fileCommentsDone =>
        /\ {p \in FilePaths : \E c \in BotAuthored(reviewComments) : Includes(c.body, FileCommentKey(p))}
             = {p \in FilePaths : DiagnosticsOf(p) # <<>>}
        /\ \A c \in BotAuthored(reviewComments) : \A p \in FilePaths :
               Includes(c.body, FileCommentKey(p)) => c.body = FileCommentBody(p, DiagnosticsOf(p))

\* C3: a run of addFileComments that follows a completed one, with the same
\* report and the review comments as that run left them, issues no
\* createReviewComment and no deleteReviewComment call.
C3_SecondRunCreatesAndDeletesNothing ==
    (/\ fileCommentsDone
     /\ lastRun.completed
     /\ lastRun.report = pyrightReport
     /\ existingReviewComments = <<lastRun.reviewComments>>)
    => CallsOf({"createReviewComment", "deleteReviewComment"}) = {}

\* C4: for every file with diagnostics whose key is carried by a review
\* comment of the bot fetched in this run, addFileComments calls
\* updateReviewComment with that comment's id and the new body, and neither
\* creates a comment for the file nor deletes that comment.
C4_ExistingCommentIsUpdated ==
    fileCommentsDone =>
        \A p \in FilePaths : \A c \in BotAuthored(existingReviewComments[1]) :
            (DiagnosticsOf(p) # <<>> /\ Includes(c.body, FileCommentKey(p))) =>
                /\ \E k \in CallsOf({"updateReviewComment"}) :
                       calls[k].id = c.id /\ calls[k].body = FileCommentBody(p, DiagnosticsOf(p))
                /\ \A k \in CallsOf({"createReviewComment"}) : calls[k].path # p
                /\ \A k \in CallsOf({"deleteReviewComment"}) : calls[k].id # c.id

\* C5: when addSummaryComment has made its call, it was an updateComment on
\* the bot's issue comment carrying the summary key if the fetched comments
\* had one, and a createComment only if they had none.
C5_SummaryIsUpserted ==
    (pc = "done" /\ ~options.includeBaseComparison /\ existingComments # <<>>) =>
        LET own == {c \in BotAuthored(existingComments[1]) : Includes(c.body, SummaryKey)}
        IN /\ own # {} => /\ \E k \in CallsOf({"updateComment"}) : \E c \in own : calls[k].id = c.id
                          /\ CallsOf({"createComment"}) = {}
           /\ CallsOf({"createComment"}) # {} => own = {}

\* C6: when addBaseComparisonComment has made its call, it was an
\* updateComment with the new comparison body on the bot's issue comment
\* carrying the base-summary key if the fetched comments had one, with no
\* createComment; otherwise it was exactly one createComment.
C6_BaseComparisonIsUpserted ==
    (pc = "done" /\ options.includeBaseComparison /\ existingComments # <<>>) =>
        LET own == {c \in BotAuthored(existingComments[1]) : Includes(c.body, BaseSummaryKey)}
            body == ComparisonMessage(headReport[1], baseReport[1])
        IN IF own # {}
           THEN /\ \E k \in CallsOf({"updateComment"}) : \E c \in own :
                       calls[k].id = c.id /\ calls[k].body = body
                /\ CallsOf({"createComment"}) = {}
           ELSE /\ Cardinality(CallsOf({"createComment"})) = 1
                /\ \A k \in CallsOf({"createComment"}) : calls[k].body = body
                /\ CallsOf({"updateComment"}) = {}

\* a run found the bot's comparison comment of an earlier run and updated it
\* with a different body
C6_Witness ==
    /\ pc = "done"
    /\ options.includeBaseComparison
    /\ existingComments # <<>>
    /\ \E c \in BotAuthored(existingComments[1]) :
          /\ Includes(c.body, BaseSummaryKey)
          /\ c.body # ComparisonMessage(headReport[1], baseReport[1])
          /\ \E k \in CallsOf({"updateComment"}) : calls[k].id = c.id /\ calls[k].ok

\* C7: when a run with file comments enabled has ended without an error,
\* every review comment of the bot that existed when the run started and
\* carries the key of a file with no diagnostic in this run is gone, and no
\* comment was created for that file.
C7_OrphansAreDeleted ==
    (pc = "done" /\ ~failed /\ options.includeFileComments) =>
        \A p \in FilePaths : \A c \in BotAuthored(startReviewComments) :
            (DiagnosticsOf(p) = <<>> /\ Includes(c.body, FileCommentKey(p))) =>
                /\ \A d \in Range(reviewComments) : d.id # c.id
                /\ \A k \in CallsOf({"createReviewComment"}) : calls[k].path # p

\* C8: no update or delete call is issued with the id of a comment that
\* another user wrote.
C8_OnlyOwnCommentsAreTouched ==
    \A k \in CallsOf({"updateComment", "updateReviewComment", "deleteReviewComment"}) :
        calls[k].id \notin userIds

\* a run fetched another user's review comment that carries the key of
\* a.py, and deleted a comment for that key
C8_Witness ==
    /\ existingReviewComments # <<>>
    /\ \E c \in Range(existingReviewComments[1]) :
          c.login # BotLogin /\ Includes(c.body, FileCommentKey(APy))
    /\ \E k \in CallsOf({"deleteReviewComment"}) :
          calls[k].ok /\ \E c \in BotAuthored(existingReviewComments[1]) :
              c.id = calls[k].id /\ Includes(c.body, FileCommentKey(APy))

\* C9: when a run that fetched the review comments has ended, every action
\* the reconciliation computes has been issued: a create or update for each
\* diagnostic group and a delete for each keyed comment whose key is not the
\* key of a group.
C9_EveryActionIsIssued ==
    (pc = "done" /\ existingReviewComments # <<>>) =>
        /\ \A g \in 1..Len(diagnosticsByFile) :
               \E k \in CallsOf({"createReviewComment", "updateReviewComment"}) :
                   calls[k].path = diagnosticsByFile[g].key
        /\ \A e \in 1..Len(keyedExistingReviewComments) :
               (\A g \in 1..Len(diagnosticsByFile) :
                    keyedExistingReviewComments[e].key # FileCommentKey(diagnosticsByFile[g].key))
               => \E k \in CallsOf({"deleteReviewComment"}) :
                      calls[k].id = keyedExistingReviewComments[e].value.id

\* C10: a run in which a create, update or delete call failed ends marked as
\* failed.
C10_FailedCallFailsRun ==
    (pc = "done" /\ \E k \in 1..Len(calls) : ~calls[k].ok) => failed

\* a run ended after its delete call failed
C10_Witness ==
    /\ pc = "done"
    /\ failed
    /\ \E k \in CallsOf({"deleteReviewComment"}) : ~calls[k].ok

\* the last line of a text
LastLine(text) ==
    LET breaks == {k \in 1..Len(text) : text[k] = Newline}
    IN IF breaks = {} THEN text
       ELSE SubSeq(text, (CHOOSE k \in breaks : \A m \in breaks : m <= k) + 1, Len(text))

\* the text has a bracketed key of the prefix: an opening bracket, the
\* prefix, a colon, one or more characters other than a closing bracket, and
\* a closing bracket
HasMarker(text, prefix) ==
    \E i \in 1..Len(text), j \in 1..Len(text) :
        /\ i + Len(prefix) + 2 < j
        /\ SubSeq(text, i, i + Len(prefix) + 1) = <<"[">> \o prefix \o <<":">>
        /\ text[j] = "]"
        /\ \A k \in (i + Len(prefix) + 2)..(j - 1) : text[k] # "]"

\* C11: decoding a marker that generateCommentKey produced, with the same
\* prefix, gives back the key generateCommentKey produced: either as the
\* decoded value itself (the comparison of addSummaryComment) or as
\* createCommentKey of the decoded value (the map key of addFileComments).
C11_MarkerRoundTrip ==
    (/\ args.fn = "findCommentKeyValue"
     /\ result # <<>>
     /\ \E v \in Discriminants : args.input = generateCommentKey(args.keyPrefix, v))
    => /\ result[1].found
       /\ \/ result[1].value = args.input
          \/ createCommentKey(args.keyPrefix, result[1].value) = args.input

\* C12: decoding a rendered file-comment body under the file prefix gives the
\* key of the marker on the body's last line, whatever the diagnostic
\* messages contain.
C12_FooterMarkerIsDecoded ==
    (/\ args.fn = "findCommentKeyValue"
     /\ result # <<>>
     /\ args.keyPrefix = FileKeyPrefix
     /\ args.input \in RenderedFileBodies)
    => /\ result[1].found
       /\ LastLine(args.input)
            = <<"###### ", "[">> \o FileKeyPrefix \o <<":">> \o result[1].value \o <<"]">>

\* C13: findCommentKeyValue returns null for a text that has no bracketed key
\* of the prefix, and for a marker generated for another of the three
\* prefixes.
C13_AbsentWithoutMarkerOfPrefix ==
    (args.fn = "findCommentKeyValue" /\ result # <<>>) =>
        /\ result[1] \in [found : BOOLEAN, value : Seq(STRING)]
        /\ ~HasMarker(args.input, args.keyPrefix) => ~result[1].found
        /\ \A p \in KeyPrefixes \ {args.keyPrefix} : \A v \in Discriminants :
               args.input = generateCommentKey(p, v) => ~result[1].found

\* the summary marker decoded under the base-summary prefix, which shares the
\* stem summary-key with it: null
C13_Witness ==
    /\ args.fn = "findCommentKeyValue"
    /\ args.keyPrefix = BaseKeyPrefix
    /\ args.input = generateCommentKey(SummaryKeyPrefix, PullNumber)
    /\ result # <<>>
    /\ ~result[1].found

HexAlphabet ==
    {"0", "1", "2", "3", "4", "5", "6", "7", "8", "9", "a", "b", "c", "d", "e", "f"}

ItemStarts(body) == {i \in 1..Len(body) : body[i] = "> - "}

KthSmallest(S, k) == CHOOSE x \in S : Cardinality({y \in S : y < x}) = k - 1

\* the diagnostics of a report that belong to the file path, in the
\* report's order
ReportDiagnosticsOf(generalDiagnostics, path) ==
    SelectSeq(generalDiagnostics, LAMBDA d : getRelativePath(d.file, RepoName) = path)

\* C15: addFileComments renders one body for each file that has a
\* diagnostic, and the list items of that body are the formatted diagnostics
\* of the file, one item for each, in the order of the report, a diagnostic
\* without a range included.
C15_EachDiagnosticOnceInOrder ==
    (args.fn = "addFileComments" /\ result # <<>>) =>
        /\ {g.relativePath : g \in Range(result[1])}
             = {getRelativePath(d.file, RepoName) : d \in Range(args.generalDiagnostics)}
        /\ \A a \in 1..Len(result[1]), b \in 1..Len(result[1]) :
               result[1][a].relativePath = result[1][b].relativePath => a = b
        /\ \A g \in Range(result[1]) :
               LET group == ReportDiagnosticsOf(args.generalDiagnostics, g.relativePath)
                   starts == ItemStarts(g.body)
               IN /\ Cardinality(starts) = Len(group)
                  /\ \A k \in 1..Len(group) :
                         LET line == formatDiagnostic(group[k], g.relativePath)
                             at == KthSmallest(starts, k)
                         IN /\ MatchesAt(g.body, line, at)
                            /\ g.body[at + Len(line) + 1] = Newline

\* a report whose diagnostics for a.py are a range-less one and, after a
\* diagnostic of b.py, one with a range: two bodies rendered
C15_Witness ==
    /\ args.fn = "addFileComments"
    /\ args.generalDiagnostics = <<DiagMarker, DiagB, DiagA>>
    /\ result # <<>>
    /\ Len(result[1]) = 2
    /\ Cardinality(ItemStarts(result[1][1].body)) = 2

\* C16: the text of formatDiagnostic is the file name and a colon, followed
\* by (start line + 1):(start character + 1) and a dash exactly when the
\* diagnostic has a range whose four coordinates are not all zero, and
\* followed directly by the severity part otherwise; a range starting at
\* line 9, character 13 is shown as 10:14.
C16_LocationIffNonEmptyRange ==
    (args.fn = "formatDiagnostic" /\ result # <<>>) =>
        LET diag == args.diag
            text == result[1]
            after == Slice(text, Len(args.fileName) + 1)
            shown == /\ diag.range # <<>>
                     /\ \/ diag.range[1].start.line # 0
                        \/ diag.range[1].start.character # 0
                        \/ diag.range[1].end.line # 0
                        \/ diag.range[1].end.character # 0
        IN /\ SubSeq(text, 1, Len(args.fileName) + 1) = args.fileName \o <<":">>
           /\ shown =>
                  MatchesAt(after,
                            NumberToString(diag.range[1].start.line + 1) \o <<":">>
                            \o NumberToString(diag.range[1].start.character + 1)
                            \o <<" -", " ">> \o getSeverityIcon(diag.severity), 0)
           /\ ~shown => MatchesAt(after, <<" ">> \o getSeverityIcon(diag.severity), 0)
           /\ (diag.range # <<>> /\ diag.range[1].start = Position(9, 13)) =>
                  MatchesAt(after, <<"1", "0", ":", "1", "4", " -">>, 0)

\* a range that starts at 0:0 and ends elsewhere has been rendered as 1:1
C16_Witness ==
    /\ args.fn = "formatDiagnostic"
    /\ args.diag.range = <<[start |-> Position(0, 0), end |-> Position(0, 1)]>>
    /\ result # <<>>
    /\ MatchesAt(result[1], <<":", "1", ":", "1", " -">>, Len(args.fileName))

\* C17: in every body addFileComments renders, the text from the start of a
\* list item to the start of the next one (or to the closing details line)
\* holds exactly one line break, the one that ends the item's line.
C17_OneLinePerDiagnostic ==
    (args.fn = "addFileComments" /\ result # <<>>) =>
        \A g \in Range(result[1]) :
            LET starts == ItemStarts(g.body)
                close == CHOOSE i \in 1..Len(g.body) : g.body[i] = "> </details>"
            IN \A k \in 1..Cardinality(starts) :
                   LET from == KthSmallest(starts, k)
                       to == IF k < Cardinality(starts) THEN KthSmallest(starts, k + 1) ELSE close
                   IN Cardinality({i \in from..to : g.body[i] = Newline}) = 1

\* the lines of a text
RECURSIVE Lines(_)
Lines(text) ==
    LET breaks == {k \in 1..Len(text) : text[k] = Newline}
    IN IF breaks = {} THEN <<text>>
       ELSE LET k == CHOOSE b \in breaks : \A m \in breaks : b <= m
            IN <<SubSeq(text, 1, k - 1)>> \o Lines(SubSeq(text, k + 1, Len(text)))

LinesStarting(text, label) == {l \in Range(Lines(text)) : l # <<>> /\ l[1] = label}

\* C18: the summary body rendered for a pyright report has the line
\* Files Analyzed with the filesAnalyzed of the report; an Errors line, with
\* the count, exactly when errorCount > 0; a Warnings line, with the count,
\* exactly when warningCount > 0; and the line No errors or warnings found
\* exactly when both counts are zero.
C18_SummaryLines ==
    (args.fn = "addSummaryComment" /\ result # <<>>) =>
        LET summary == args.output.summary
            body == result[1]
        IN /\ LinesStarting(body, "**:memo: Files Analyzed**: ")
                = {<<"**:memo: Files Analyzed**: ">> \o NumberToString(summary.filesAnalyzed)}
           /\ LinesStarting(body, "**:x: Errors**: ")
                = IF summary.errorCount > 0
                  THEN {<<"**:x: Errors**: ">> \o NumberToString(summary.errorCount)}
                  ELSE {}
           /\ LinesStarting(body, "**:warning: Warnings**: ")
                = IF summary.warningCount > 0
                  THEN {<<"**:warning: Warnings**: ">> \o NumberToString(summary.warningCount)}
                  ELSE {}
           /\ LinesStarting(body, ":white_check_mark: No errors or warnings found.")
                = IF summary.errorCount = 0 /\ summary.warningCount = 0
                  THEN {<<":white_check_mark: No errors or warnings found.">>}
                  ELSE {}

\* the pieces of a text between the occurrences of the atom sep
RECURSIVE SplitOn(_, _)
SplitOn(text, sep) ==
    LET at == {k \in 1..Len(text) : text[k] = sep}
    IN IF at = {} THEN <<text>>
       ELSE LET k == CHOOSE b \in at : \A m \in at : b <= m
            IN <<SubSeq(text, 1, k - 1)>> \o SplitOn(SubSeq(text, k + 1, Len(text)), sep)

\* the three diff cells of a comparison body, each as the indicator before
\* the blank and the number after it
DiffCells(body) ==
    LET row == CHOOSE l \in Range(Lines(body)) : Len(l) >= 2 /\ l[2] = "diff"
        cells == SplitOn(SubSeq(row, 1, Len(row) - 1), " | ")
    IN [c \in 1..3 |->
           LET parts == SplitOn(cells[c + 1], " ")
           IN [indicator |-> parts[1], number |-> parts[2]]]

\* head minus base of the pyright outputs, by column
ExpectedDiffs(head, base) ==
    <<head.summary.filesAnalyzed - base.summary.filesAnalyzed,
      head.summary.warningCount - base.summary.warningCount,
      head.summary.errorCount - base.summary.errorCount>>

IncreaseIndicators == {<<":arrow_up:">>, <<":x:">>}
DecreaseIndicators == {<<":arrow_down:">>, <<":white_check_mark:">>}

\* C19: in the diff row of the comparison table, the number of each cell is
\* head minus base of its column (files analyzed, warnings, errors), and the
\* indicator of the cell is an increase indicator when that difference is
\* > 0, a decrease indicator when it is < 0, and neither of the two when it
\* is 0.
C19_DiffIndicatorsBySign ==
    (args.fn = "addBaseComparisonComment" /\ result # <<>>) =>
        LET cells == DiffCells(result[1])
            diffs == ExpectedDiffs(args.head, args.base)
        IN \A c \in 1..3 :
               /\ \/ cells[c].number = NumberToString(diffs[c])
                  \/ diffs[c] > 0 /\ cells[c].number = <<"+">> \o NumberToString(diffs[c])
               /\ diffs[c] > 0 => cells[c].indicator \in IncreaseIndicators
               /\ diffs[c] < 0 => cells[c].indicator \in DecreaseIndicators
               /\ diffs[c] = 0 => cells[c].indicator \notin IncreaseIndicators \cup DecreaseIndicators

\* C20: the number of each diff cell is written with its sign: +n for an
\* increase of n, -n for a decrease of n, 0 for no change; for base
\* {files 2, warnings 2, errors 0} and head {files 2, warnings 0, errors 1}
\* the cells read 0, -2 and +1.
C20_DiffNumbersAreSigned ==
    (args.fn = "addBaseComparisonComment" /\ result # <<>>) =>
        LET cells == DiffCells(result[1])
            diffs == ExpectedDiffs(args.head, args.base)
        IN /\ \A c \in 1..3 :
                  cells[c].number = IF diffs[c] > 0 THEN <<"+">> \o NatToString(diffs[c])
                                    ELSE IF diffs[c] < 0 THEN <<"-">> \o NatToString(0 - diffs[c])
                                    ELSE <<"0">>
           /\ (args.base = ProjectSummary(2, 2, 0) /\ args.head = ProjectSummary(2, 0, 1)) =>
                  /\ cells[1].number = <<"0">>
                  /\ cells[2].number = <<"-", "2">>
                  /\ cells[3].number = <<"+", "1">>

\* C21: for a path <workdir>/<repoName>/<repoName>/<rest>, getRelativePath
\* returns <rest>, whether or not the work directory or <rest> hold the
\* repository name as well; /home/runner/work/proj/proj/main.py with proj
\* gives main.py.
C21_RelativePathIsRest ==
    (args.fn = "getRelativePath" /\ result # <<>>) => result[1] = args.rest

\* the position in the report of the first diagnostic of the file path
FirstSeen(generalDiagnostics, path) ==
    LET at == {k \in 1..Len(generalDiagnostics) :
                  getRelativePath(generalDiagnostics[k].file, RepoName) = path}
    IN CHOOSE k \in at : \A m \in at : k <= m

RECURSIVE SumOfLengths(_)
SumOfLengths(groups) ==
    IF groups = <<>> THEN 0 ELSE Len(Head(groups).fileDiagnostics) + SumOfLengths(Tail(groups))

\* C22: the groups of a report are one for each path getRelativePath gives
\* (the unchanged path when it falls back); each group holds the diagnostics
\* of its path, in the report's order; the groups are visited in the order in
\* which their paths first appear in the report; and the groups hold as many
\* diagnostics together as the report.
C22_GroupingDropsNothing ==
    (args.fn = "addFileComments" /\ result # <<>>) =>
        LET groups == result[1]
            report == args.generalDiagnostics
        IN /\ \A k \in 1..Len(report) :
                  Cardinality({g \in 1..Len(groups) :
                      /\ groups[g].relativePath = getRelativePath(report[k].file, RepoName)
                      /\ report[k] \in Range(groups[g].fileDiagnostics)}) = 1
           /\ \A g \in 1..Len(groups) :
                  groups[g].fileDiagnostics = ReportDiagnosticsOf(report, groups[g].relativePath)
           /\ \A a \in 1..Len(groups), b \in 1..Len(groups) :
                  a < b => FirstSeen(report, groups[a].relativePath)
                             < FirstSeen(report, groups[b].relativePath)
           /\ SumOfLengths(groups) = Len(report)

\* a report whose first diagnostic is of a file outside the checkout,
\* followed by b.py and a.py: three groups, the unresolved path first
C22_Witness ==
    /\ args.fn = "addFileComments"
    /\ args.generalDiagnostics = <<DiagOutside, DiagB, DiagA>>
    /\ result # <<>>
    /\ Len(result[1]) = 3
    /\ result[1][1].relativePath = PathOutside
    /\ result[1][2].relativePath = BPy

\* C23: with fail-on-issue-increase and include-base-comparison both set, a
\* run that has both reports and in which the head has more errors or more
\* warnings than the base ends marked failed, whether or not a comparison
\* comment was on the pull request before the run.
C23_IssueIncreaseFailsRun ==
    (/\ pc = "done"
     /\ options.failOnIssueIncrease
     /\ options.includeBaseComparison
     /\ headReport # <<>>
     /\ baseReport # <<>>
     /\ \/ JsGt0(ErrorDiff(headReport[1], baseReport[1]))
        \/ JsGt0(WarningDiff(headReport[1], baseReport[1])))
    => failed

\* C24: without the github-token input a run ends marked failed and has
\* made no call to the platform (no pull-request fetch, no comparison of
\* commits, no list, create, update or delete of a comment) and has not run
\* the type checker.
C24_MissingTokenFailsFirst ==
    options.token = <<>> =>
        /\ pc \in {"idle", "done"}
        /\ pc = "done" => failed
        /\ calls = <<>>
        /\ pythonFiles = <<>>
        /\ pyrightReport = <<>> /\ headReport = <<>> /\ baseReport = <<>>
        /\ existingReviewComments = <<>> /\ existingComments = <<>>
        /\ BotAuthored(reviewComments) = {} /\ BotAuthored(issueComments) = {}

\* a run without the token has ended, marked failed
C24_Witness ==
    options.token = <<>> /\ pc = "done" /\ failed

\* C25: a step in which a type-checker report (of the changed files, of the
\* head or of the base) turns out malformed marks the run failed and ends it,
\* and the run has issued no create, update or delete call.
C25_MalformedReportBeforeAnyWrite ==
    [][(/\ pc \in {"runPyright", "runPyrightHead", "runPyrightBase"}
        /\ failures' = failures + 1)
       => (failed' /\ pc' = "done" /\ calls' = <<>>)]_vars

\* C26: the report parseReport returns has the diagnostics of its input and a
\* summary of exactly the four counts errorCount, warningCount,
\* informationCount and filesAnalyzed, each with its input value; every other
\* field of the input is dropped.
C26_ParseKeepsReportShape ==
    (args.fn = "parseReport" /\ result # <<>>) =>
        LET report == result[1]
            counts == {"errorCount", "warningCount", "informationCount", "filesAnalyzed"}
        IN /\ DOMAIN report = {"generalDiagnostics", "summary"}
           /\ report.generalDiagnostics = args.output.generalDiagnostics
           /\ DOMAIN report.summary = counts
           /\ \A c \in counts : report.summary[c] = args.output.summary[c]

ReviewWrites == {"createReviewComment", "updateReviewComment"}
ReviewOps == ReviewWrites \cup {"deleteReviewComment"}

\* C27: in a run of addFileComments the review comments are fetched once (the
\* fetch is the step that leaves listReviewComments, which a run enters once,
\* and what it fetched stays as it is until the run ends); a step issues at
\* most one call, after the calls before it were answered; a create, update
\* or delete of a review comment is issued after the fetch; and no create or
\* update follows a delete.
C27_FetchOnceWritesThenDeletes ==
    [][/\ pc' = "listReviewComments" => pc = "runPyright"
       /\ pc = "listReviewComments" => pc' # "listReviewComments"
       /\ existingReviewComments' # existingReviewComments
             => (pc = "listReviewComments" \/ pc' = "idle")
       /\ \/ calls' = calls
          \/ calls' = <<>>
          \/ /\ Len(calls') = Len(calls) + 1
             /\ SubSeq(calls', 1, Len(calls)) = calls
             /\ calls'[Len(calls')].op \in ReviewOps =>
                   /\ existingReviewComments # <<>>
                   /\ existingReviewComments' = existingReviewComments
       /\ \A i \in 1..Len(calls'), j \in 1..Len(calls') :
             (i < j /\ calls'[i].op = "deleteReviewComment") => calls'[j].op \notin ReviewWrites
      ]_vars

\* addFileComments has ended after a create followed by a delete
C27_Witness ==
    /\ fileCommentsDone
    /\ \E i \in 1..Len(calls), j \in 1..Len(calls) :
          /\ i < j
          /\ calls[i].op = "createReviewComment"
          /\ calls[j].op = "deleteReviewComment"

\* C30: when the comparison of commits names no file ending in .py, the run
\* ends there: it has issued no create, update or delete call, has fetched
\* neither the review comments nor the issue comments, has no report of the
\* type checker, and the review comments are those of its start; and in any
\* run the two comment stores change only in a step that issues a call.
C30_NoPythonFileNoCall ==
    [][/\ (pc = "getChangedPythonFiles" /\ ~failed' /\ pythonFiles' = <<>>) =>
             /\ pc' = "done"
             /\ calls' = <<>>
             /\ pyrightReport' = <<>> /\ headReport' = <<>> /\ baseReport' = <<>>
             /\ existingReviewComments' = <<>> /\ existingComments' = <<>>
             /\ reviewComments' = startReviewComments'
       /\ (pc # "idle" /\ calls' = calls) =>
             (reviewComments' = reviewComments /\ issueComments' = issueComments)
      ]_vars

\* a later run has ended at the early return, with the bot's review comment
\* of an earlier run still on the pull request
C30_Witness ==
    /\ pc = "done" /\ ~failed /\ pythonFiles = <<>>
    /\ options.token # <<>>
    /\ runs >= 1
    /\ BotAuthored(reviewComments) # {}
    /\ calls = <<>>

\* C29: when the run before stopped inside addFileComments, after its fetch,
\* on a rejected call, and this run has gone through addFileComments and
\* ended without a rejected call, the pull request carries at most one review
\* comment of the bot for each file's key.
C29_RecoveryLeavesOnePerKey ==
    (/\ lastRun.aborted
     /\ pc = "done"
     /\ fileCommentsDone
     /\ ~failed)
    => \A p \in FilePaths :
          Cardinality({c \in BotAuthored(reviewComments) :
                          Includes(c.body, FileCommentKey(p))}) <= 1

\* the comparison comments of the bot on the pull request
ComparisonComments ==
    {c \in BotAuthored(issueComments) : Includes(c.body, BaseSummaryKey)}

\* C28: once the runs that worked on the pull request at the same time have
\* all ended, the pull request carries at most one base-comparison comment,
\* and its body is the body of the write the store applied last.
C28_LastWriterWinsOneComment ==
    (/\ overlap.started >= 2
     /\ \A r \in Runners : overlap.run[r].pc = "done")
    => /\ Cardinality(ComparisonComments) <= 1
       /\ \A c \in ComparisonComments : c.body = calls[Len(calls)].body

IssueOps == {"createComment", "updateComment", "deleteComment"}

\* the key of the issue comment the run is to write, and the key of the other
ReconciledKey == IF options.includeBaseComparison THEN BaseSummaryKey ELSE SummaryKey
OtherKey == IF options.includeBaseComparison THEN SummaryKey ELSE BaseSummaryKey

\* C31: a run issues at most one call on an issue comment, a create or an
\* update whose body carries the base-comparison key when
\* include-base-comparison is set and the summary key otherwise, and exactly
\* one once it has gone through the reporting step; no step of the run
\* changes the bot's issue comments that carry the other key; and with
\* include-file-comments off the run neither fetches the review comments nor
\* issues a call on one nor changes them.
C31_OneIssueCommentReconciled ==
    [][pc # "idle" =>
         LET issueCalls == {k \in 1..Len(calls') : calls'[k].op \in IssueOps}
         IN /\ Cardinality(issueCalls) <= 1
            /\ \A k \in issueCalls :
                  /\ calls'[k].op \in {"createComment", "updateComment"}
                  /\ Includes(calls'[k].body, ReconciledKey)
                  /\ ~Includes(calls'[k].body, OtherKey)
            /\ (pc \in {"writeBaseComparison", "writeSummary"} /\ pc' = "done")
                  => Cardinality(issueCalls) = 1
            /\ {c \in BotAuthored(issueComments') : Includes(c.body, OtherKey)}
                  = {c \in BotAuthored(issueComments) : Includes(c.body, OtherKey)}
            /\ ~options.includeFileComments =>
                  /\ existingReviewComments' = <<>>
                  /\ \A k \in 1..Len(calls') : calls'[k].op \notin ReviewOps
                  /\ reviewComments' = reviewComments
      ]_vars

\* a run without file comments has written the base-comparison comment on a
\* pull request that carries a summary comment and a review comment of the
\* bot from runs before the inputs changed
C31_Witness ==
    /\ pc = "done"
    /\ options.includeBaseComparison /\ ~options.includeFileComments
    /\ \E k \in 1..Len(calls) : calls[k].op \in IssueOps /\ calls[k].ok
    /\ \E c \in BotAuthored(issueComments) : Includes(c.body, SummaryKey)
    /\ BotAuthored(reviewComments) # {}
====
